---- MODULE Spec2Model ----
(***************************************************************************)
(* Model of the step-wise OpenAI agent engine                              *)
(* (llama_index/agent/v1/openai.py): one task driven through               *)
(* initialize_step / run_step / arun_step, the conversation log, the       *)
(* step state (sources, n_function_calls) and the tool invoker.            *)
(***************************************************************************)
EXTENDS Integers, Sequences, FiniteSets, TLC

(* ---------------------------- bounds ----------------------------------- *)
\* largest configured max_function_calls explored
MaxCallsBound == 2
\* most directives one model reply carries
MaxDirectives == 2
\* largest invocation counter of a step handed in by a caller
MaxCounter == 2
\* most chat deltas of one model stream
MaxChunks == 2
\* most steps callers ask initialize_step for
MaxSteps == 2
\* longest list of related nodes stored under one relationship
MaxChildren == 2

(* ------------------------------ data ----------------------------------- *)
TaskIds == {1, 2}
\* the fixed tool list the engine was built with (tool.metadata.name)
Tools == <<"add", "mul">>
ReplyContents == {"4", "hi"}
ToolChoices == {"auto", "add"}

\* kinds of directive a model reply can carry: one that names a tool of the
\* engine, and the four ways a directive can be unusable
GoodKinds == {"add"}
BadKinds == {"nosuch", "badtype", "badjson", "malformed"}
DirectiveKinds == GoodKinds \cup BadKinds

\* an OpenAIToolCall as the model sends it; wf is FALSE for an object that is
\* no tool-call object at all
Directive(kind, i) ==
    [ id        |-> i,
      wf        |-> kind # "malformed",
      type      |-> IF kind = "badtype" THEN "code_interpreter" ELSE "function",
      name      |-> IF kind = "nosuch" THEN "nosuch" ELSE "add",
      arguments |-> IF kind = "badjson" THEN "{bad" ELSE "{}" ]

\* the directive lists of at most n directives; the loop stops at the first
\* unusable directive, so a list carries at most one of them
DirectiveSeqs(n) ==
    { [i \in 1..len |-> Directive(IF i = bad THEN k ELSE "add", i)] :
        len \in 0..n, bad \in 0..n, k \in BadKinds }

\* ChatMessage: role, content and the additional_kwargs the engine reads
AssistantMessage(content, has, calls) ==
    [ role |-> "assistant", content |-> <<content>>,
      has_tool_calls |-> has, tool_calls |-> calls,
      name |-> "", tool_call_id |-> 0 ]

UserMessage(content) ==
    [ role |-> "user", content |-> <<content>>,
      has_tool_calls |-> FALSE, tool_calls |-> <<>>,
      name |-> "", tool_call_id |-> 0 ]

\* every reply the model client may return from chat()/achat()
\* (a reply that carries directives has no content: str(None))
Replies ==
    { AssistantMessage(c, FALSE, <<>>) : c \in ReplyContents } \cup
    { AssistantMessage("None", TRUE, ds) : ds \in DirectiveSeqs(MaxDirectives) }


\* ToolOutput.__str__: the text of a tool output is its content
Str(output) == output.content

\* ToolOutput of a tool that returned normally
ToolResult(name, arguments) ==
    [ content    |-> <<"4">>,
      tool_name  |-> name,
      raw_input  |-> arguments,
      raw_output |-> [is_error |-> FALSE, value |-> "4"] ]

NoOutput ==
    [ content    |-> <<>>,
      tool_name  |-> "",
      raw_input  |-> "",
      raw_output |-> [is_error |-> FALSE, value |-> ""] ]

\* the exception a failing tool raises, by its text
ToolException == "boom"

\* the tool message call_function / acall_function build
ToolMessage(output, name, id_) ==
    [ role |-> "tool", content |-> Str(output),
      has_tool_calls |-> FALSE, tool_calls |-> <<>>,
      name |-> name, tool_call_id |-> id_ ]

NoMessage ==
    [ role |-> "", content |-> <<>>,
      has_tool_calls |-> FALSE, tool_calls |-> <<>>,
      name |-> "", tool_call_id |-> 0 ]

\* AgentChatResponse / a plain input text, in one shape
AgentChatResponse(response, sources) ==
    [ kind |-> "AgentChatResponse", response |-> response, sources |-> sources ]

InputText(text) ==
    [ kind |-> "str", response |-> <<text>>, sources |-> 0 ]

NoResponse ==
    [ kind |-> "None", response |-> <<>>, sources |-> 0 ]

\* self.sources of the engine, as the stream relays read it: no list of the
\* heap
EngineSources == 0

\* StreamingAgentChatResponse(chat_stream=..., sources=...)
StreamingAgentChatResponse(sources) ==
    [ kind |-> "StreamingAgentChatResponse", response |-> "stream",
      sources |-> sources ]

\* step_state of a TaskStep built without one: the empty scratch map
DefaultStepState ==
    [ keys |-> {}, sources |-> 0, n_function_calls |-> 0 ]

TaskStep(task_id_, step_id_, input_, memory_, step_state_) ==
    [ task_id |-> task_id_, step_id |-> step_id_, input |-> input_,
      memory |-> memory_, step_state |-> step_state_ ]

TaskStepOutput(output_, task_step_, is_last_, next_steps_) ==
    [ present |-> TRUE, output |-> output_, task_step |-> task_step_,
      is_last |-> is_last_, next_steps |-> next_steps_ ]

NoTaskStepOutput ==
    [ present |-> FALSE, output |-> NoResponse, task_step |-> 0,
      is_last |-> FALSE, next_steps |-> <<>> ]

\* uuid.uuid4(): an identifier no earlier call returned
uuid4(issued_) == Len(issued_) + 1

(* --------------------------- pure functions ---------------------------- *)
ToolNames(tool_list) == { tool_list[i] : i \in 1..Len(tool_list) }

\* a lookup that never fails
get_function_by_name_any(tool_list, name) == TRUE

\* get_function_by_name: TRUE when the lookup succeeds (else ValueError)
get_function_by_name(tool_list, name) == name \in ToolNames(tool_list)

\* a parse that never fails
json_loads_any(arguments_str) == TRUE

\* json.loads on the argument string: TRUE when it parses
json_loads(arguments_str) == arguments_str = "{}"

\* call_tool_with_error_handling with raise_error = False and no error_message
call_tool_with_error_handling(name, input_dict, outcome) ==
    IF outcome = "ok"
    THEN ToolResult(name, input_dict)
    ELSE [ content    |-> <<"Error:", ToolException>>,
           tool_name  |-> name,
           raw_input  |-> input_dict,
           raw_output |-> [is_error |-> TRUE, value |-> ToolException] ]

resolve_tool_choice(tool_choice_) ==
    IF tool_choice_ \notin {"none", "auto"}
    THEN [type |-> "function", name |-> tool_choice_]
    ELSE [type |-> tool_choice_, name |-> ""]

\* _should_continue stopping as soon as the counter reaches the maximum
_should_continue_at_max(has_calls, calls, n_function_calls, max_calls) ==
    IF n_function_calls >= max_calls THEN FALSE
    ELSE IF ~has_calls \/ Len(calls) = 0 THEN FALSE
    ELSE TRUE

\* _should_continue without the test for an empty directive list
_should_continue_no_calls_test(has_calls, calls, n_function_calls, max_calls) ==
    IF n_function_calls > max_calls THEN FALSE
    ELSE TRUE

_should_continue(has_calls, calls, n_function_calls, max_calls) ==
    IF n_function_calls > max_calls THEN FALSE
    ELSE IF ~has_calls \/ Len(calls) = 0 THEN FALSE
    ELSE TRUE

(* --------------------------- construction ------------------------------ *)
\* the tool lists a caller can pass: every list of at most two of the tools
ToolLists ==
    {<<>>} \cup { <<a>> : a \in ToolNames(Tools) }
           \cup { <<a, b>> : a \in ToolNames(Tools), b \in ToolNames(Tools) }

\* the inputs tools are resolved for
Inputs == { InputText("What is 2+2?"), InputText("What is 2*3?") }

\* tool retrievers a caller can pass ("None": no retriever)
Retrievers == {"by_input", "all"}

\* tool_retriever.retrieve(message)
retrieve(retriever, message) ==
    IF retriever = "all" THEN Tools
    ELSE IF message = InputText("What is 2+2?") THEN <<"add">>
    ELSE <<"mul">>

\* the llm arguments of from_tools: none, an OpenAI model with or without
\* the function calling API, a model of another class
Llms == {"None", "openai", "openai_no_functions", "other"}

\* self._get_tools: the lambda __init__ stores
GetToolsFixed(tools_) == [ kind |-> "fixed", tools |-> tools_, retriever |-> "None" ]
GetToolsRetriever(r) == [ kind |-> "retriever", tools |-> <<>>, retriever |-> r ]
GetToolsEmpty == [ kind |-> "empty", tools |-> <<>>, retriever |-> "None" ]
NoGetTools == [ kind |-> "unset", tools |-> <<>>, retriever |-> "None" ]

\* the constructor taking the tool list when both are given
__init___tools_first(tools_, tool_retriever_) ==
    IF Len(tools_) > 0
    THEN [ error |-> "", _get_tools |-> GetToolsFixed(tools_) ]
    ELSE IF tool_retriever_ # "None"
    THEN [ error |-> "", _get_tools |-> GetToolsRetriever(tool_retriever_) ]
    ELSE [ error |-> "", _get_tools |-> GetToolsEmpty ]

\* __init__: the choice of self._get_tools, or the error raised
__init__(tools_, tool_retriever_) ==
    IF Len(tools_) > 0 /\ tool_retriever_ # "None"
    THEN [ error |-> "ValueError: Cannot specify both tools and tool_retriever",
           _get_tools |-> NoGetTools ]
    ELSE IF Len(tools_) > 0
    THEN [ error |-> "", _get_tools |-> GetToolsFixed(tools_) ]
    ELSE IF tool_retriever_ # "None"
    THEN [ error |-> "", _get_tools |-> GetToolsRetriever(tool_retriever_) ]
    ELSE [ error |-> "", _get_tools |-> GetToolsEmpty ]

\* the checks of from_tools before it calls the constructor: the error
\* raised ("" when there is none)
from_tools_error(llm, system_prompt, prefix_messages) ==
    IF llm = "other" THEN "ValueError: llm must be a OpenAI instance"
    ELSE IF llm = "openai_no_functions"
    THEN "ValueError: Model name does not support function calling API"
    ELSE IF system_prompt /\ prefix_messages
    THEN "ValueError: Cannot specify both system_prompt and prefix_messages"
    ELSE ""

\* the arguments of a construction
CtorArgs(via, tools_, tool_retriever_) ==
    [ via |-> via, tools |-> tools_, tool_retriever |-> tool_retriever_ ]


(* ------------------------------- nodes --------------------------------- *)
\* node_id of the RelatedNodeInfo objects
NodeIds == {1, 2}

\* the lists of RelatedNodeInfo of a given length
RelatedLists(n) == [1..n -> NodeIds]

\* what a relationships map holds for one NodeRelationship: nothing, one
\* RelatedNodeInfo, or a list of RelatedNodeInfo
NoRelation == [ kind |-> "absent", nodes |-> <<>> ]
RelatedNodeType ==
    { [ kind |-> "info", nodes |-> <<n>> ] : n \in NodeIds }
    \cup { [ kind |-> "list", nodes |-> l ] :
              l \in UNION { RelatedLists(n) : n \in 0..MaxChildren } }

\* the relationships maps, by their PARENT and CHILD entries (the
\* properties modelled read no other entry)
RelationshipMaps ==
    [ {"PARENT", "CHILD"} -> RelatedNodeType \cup {NoRelation} ]

\* what a property of a node returns or raises
NodeNone == [ kind |-> "None", error |-> "", value |-> NoRelation ]
NodeRaises(e) == [ kind |-> "raise", error |-> e, value |-> NoRelation ]
NodeValue(relation) == [ kind |-> "value", error |-> "", value |-> relation ]

\* BaseNode.parent_node
parent_node(rel) ==
    IF rel["PARENT"].kind = "absent" THEN NodeNone
    ELSE IF rel["PARENT"].kind # "info"
    THEN NodeRaises("ValueError: Parent object must be a single RelatedNodeInfo object")
    ELSE NodeValue(rel["PARENT"])

\* BaseNode.child_nodes: the membership test is on CHILD, the entry read is
\* the one of PARENT (KeyError when there is none)
child_nodes(rel) ==
    IF rel["CHILD"].kind = "absent" THEN NodeNone
    ELSE IF rel["PARENT"].kind = "absent" THEN NodeRaises("KeyError")
    ELSE IF rel["PARENT"].kind # "list"
    THEN NodeRaises("ValueError: Child objects must be a list of RelatedNodeInfo objects.")
    ELSE NodeValue(rel["PARENT"])

(* ------------------------------ state ---------------------------------- *)
VARIABLES
    engine,             \* "none", "built", or the error construction raised
    ctor_args,          \* the arguments the engine was constructed with
    _get_tools,         \* self._get_tools
    asked,              \* the input of the last get_tools call
    resolved,           \* the tools the last get_tools call returned
    max_function_calls, \* self._max_function_calls
    task_id,            \* task.task_id of the task being driven
    memory,             \* memory objects (one per task): the conversation logs
    lists,              \* heap of sources lists; a list is named by its index
    steps,              \* heap of TaskStep objects; a step is named by its index
    latest,             \* the step the driver runs next (0: none)
    out,                \* the TaskStepOutput of the last call that returned
    pc,                 \* position inside _run_step / _arun_step
    form,               \* "sync" (run_step) or "async" (arun_step)
    cur,                \* the step the running call was given
    tool_choice,        \* local tool_choice of the running call
    sent_choice,        \* tool_choice put into llm_chat_kwargs
    agent_chat_response,
    is_done,
    tool_calls,         \* the directive list the for loop iterates
    idx,                \* position of the for loop in tool_calls
    function_message,   \* results of call_function not yet recorded
    tool_output,
    err,                \* the exception a call raised ("" while none)
    origin,             \* who built the first step of the task
    issued,             \* step identifiers handed out so far
    replies,            \* the model replies of this task, oldest first
    n_invoked,          \* tools executed so far in this task
    trace,              \* log appends and tool executions of the running call
    log_before,         \* the log when the running call started
    n_before,           \* the invocation counter when the running call started
    sources_before,     \* the step's sources when the running call started
    n_checked,          \* the counter _should_continue was given
    worker,             \* the thread / task of write_response_to_history
    stream_memory,      \* the memory object the worker was given
    stream_reply,       \* the message the model stream adds up to
    chunks_left,        \* chat deltas the stream has not yielded yet
    is_function,        \* chat_stream_response._is_function
    ready,              \* _is_function_not_none_thread_event is set
    no_function,        \* _is_function_false_event is set
    relationships,      \* BaseNode.relationships of the node looked at
    node_called,        \* the property of the node read last
    node_result         \* what that property returned or raised

engineVars == <<engine, ctor_args, _get_tools, asked, resolved,
                max_function_calls, task_id>>
heapVars   == <<memory, lists, steps, latest, out>>
frameVars  == <<pc, form, cur, tool_choice, sent_choice, agent_chat_response,
                is_done, tool_calls, idx, function_message, tool_output, err>>
histVars   == <<origin, issued, replies, n_invoked, trace, log_before,
                n_before, sources_before, n_checked>>
streamVars == <<worker, stream_memory, stream_reply, chunks_left,
                is_function, ready, no_function>>
nodeVars == <<relationships, node_called, node_result>>
vars == <<engineVars, heapVars, frameVars, histVars, streamVars, nodeVars>>

\* get_tools(input): self._get_tools(input)
get_tools(input_) ==
    IF _get_tools.kind = "fixed" THEN _get_tools.tools
    ELSE IF _get_tools.kind = "retriever"
    THEN retrieve(_get_tools.retriever, input_)
    ELSE <<>>

\* task.input and task.memory of the task being driven
TaskInputOf(t) ==
    IF t = 1 THEN InputText("What is 2+2?") ELSE InputText("What is 2*3?")
TaskInput == TaskInputOf(task_id)
TaskMemory(t) == t

HasState(step) == step.step_state.keys = {"sources", "n_function_calls"}
Counter(step) == step.step_state.n_function_calls
Log(step) == memory[step.memory]

\* an engine constructed with the fixed tool list and no retriever
Constructed ==
    /\ engine = "built"
    /\ ctor_args = CtorArgs("__init__", Tools, "None")
    /\ _get_tools = __init__(Tools, "None")._get_tools
    /\ asked = NoResponse
    /\ resolved = <<>>
    /\ max_function_calls \in 0..MaxCallsBound

\* no step of the task exists and no call is running
NoCall ==
    /\ task_id \in TaskIds
    /\ \E first \in { <<>>, <<UserMessage("What is 2+2?")>> } :
          memory = [t \in TaskIds |-> first]
    /\ lists = <<>>
    /\ steps = <<>>
    /\ latest = 0
    /\ out = NoTaskStepOutput
    /\ pc = "idle"
    /\ form = "sync"
    /\ cur = 0
    /\ tool_choice = "auto"
    /\ sent_choice = resolve_tool_choice("auto")
    /\ agent_chat_response = NoResponse
    /\ is_done = FALSE
    /\ tool_calls = <<>>
    /\ idx = 0
    /\ function_message = NoMessage
    /\ tool_output = NoOutput
    /\ err = ""
    /\ origin = "none"
    /\ issued = <<>>
    /\ replies = <<>>
    /\ n_invoked = 0
    /\ trace = <<>>
    /\ log_before = <<>>
    /\ n_before = 0
    /\ sources_before = <<>>
    /\ n_checked = 0
    /\ worker = "none"
    /\ stream_memory = 0
    /\ stream_reply = NoMessage
    /\ chunks_left = 0
    /\ is_function = "None"
    /\ ready = FALSE
    /\ no_function = FALSE

\* no node is looked at
NoNode ==
    /\ relationships = [ r \in {"PARENT", "CHILD"} |-> NoRelation ]
    /\ node_called = "none"
    /\ node_result = NodeNone

Init == Constructed /\ NoCall /\ NoNode

(* ----------------------------- operations ------------------------------ *)
\* initialize_step with one sources list shared by all the steps it makes
initialize_step_result_shared(t, fresh, id_) ==
    TaskStep(t, id_, TaskInputOf(t), TaskMemory(t),
             [ keys |-> {"sources", "n_function_calls"},
               sources |-> 1,
               n_function_calls |-> 0 ])

\* the TaskStep initialize_step returns for task t; fresh names the list
\* sources = [] creates
initialize_step_result(t, fresh, id_) ==
    TaskStep(t, id_, TaskInputOf(t), TaskMemory(t),
             [ keys |-> {"sources", "n_function_calls"},
               sources |-> fresh,
               n_function_calls |-> 0 ])

\* initialize_step(task) for the task t
initialize_step_task(t) ==
    /\ pc = "idle"
    /\ lists' = Append(lists, <<>>)
    /\ steps' = Append(steps,
                  initialize_step_result(t, Len(lists) + 1, uuid4(issued)))
    /\ issued' = Append(issued, uuid4(issued))
    /\ latest' = Len(steps) + 1
    /\ origin' = "initialize_step"
    /\ UNCHANGED <<streamVars, nodeVars, engineVars, memory, out, frameVars, replies, n_invoked,
                   trace, log_before, sources_before, n_before, n_checked>>

\* initialize_step(task): the driver makes the first step of its task
initialize_step ==
    /\ origin = "none"
    /\ initialize_step_task(task_id)

\* initialize_step(task) called by any caller, for any task, again and again
AnyInitializeStep(t) ==
    /\ Len(lists) < MaxSteps
    /\ initialize_step_task(t)

\* a caller of run_step / arun_step hands in a step it built itself, with
\* any invocation counter
CallerStep(n) ==
    /\ pc = "idle"
    /\ origin = "none"
    /\ lists' = Append(lists, <<>>)
    /\ steps' = Append(steps,
                  TaskStep(task_id, uuid4(issued), TaskInput, TaskMemory(task_id),
                           [ keys |-> {"sources", "n_function_calls"},
                             sources |-> Len(lists) + 1,
                             n_function_calls |-> n ]))
    /\ issued' = Append(issued, uuid4(issued))
    /\ latest' = Len(steps) + 1
    /\ origin' = "caller"
    /\ UNCHANGED <<streamVars, nodeVars, engineVars, memory, out, frameVars, replies, n_invoked,
                   trace, log_before, sources_before, n_before, n_checked>>

\* _run_step / _arun_step up to the model call: resolve the tools and build
\* llm_chat_kwargs; next is the position the chosen response mode leads to
RunStepTo(f, choice, next) ==
    /\ pc = "idle"
    /\ latest # 0
    /\ ~(out.present /\ out.is_last)
    /\ form' = f
    /\ cur' = latest
    /\ tool_choice' = choice
    /\ sent_choice' = IF Len(get_tools(TaskInput)) > 0
                      THEN resolve_tool_choice(choice)
                      ELSE [type |-> "unset", name |-> ""]
    /\ pc' = next
    /\ err' = ""
    /\ trace' = <<>>
    /\ log_before' = Log(steps[latest])
    /\ n_before' = Counter(steps[latest])
    /\ sources_before' = IF "sources" \in steps[latest].step_state.keys
                         THEN lists[steps[latest].step_state.sources]
                         ELSE <<>>
    /\ UNCHANGED <<streamVars, nodeVars, engineVars, heapVars, agent_chat_response,
                   is_done, tool_calls, idx, function_message, tool_output,
                   origin, issued, replies, n_invoked, n_checked>>

\* run_step / arun_step: _run_step / _arun_step in WAIT mode
RunStep(f, choice) == RunStepTo(f, choice, "chat")

\* _process_message resetting the log to the reply
ProcessMessagePut_reset(log, ai_message) == <<ai_message>>

\* _process_message: the log after memory.put(ai_message)
ProcessMessagePut(log, ai_message) == Append(log, ai_message)

\* _get_agent_response / _get_async_agent_response in WAIT mode: the model
\* call and _process_message
Chat(reply) ==
    /\ pc = "chat"
    /\ LET step == steps[cur] IN
       /\ memory' = [memory EXCEPT
                       ![step.memory] = ProcessMessagePut(@, reply)]
       /\ replies' = Append(replies, reply)
       /\ trace' = Append(trace, <<"reply", 0>>)
       /\ IF "sources" \in step.step_state.keys
          THEN /\ agent_chat_response' =
                     AgentChatResponse(reply.content, step.step_state.sources)
               /\ pc' = "should_continue"
               /\ err' = err
          ELSE /\ pc' = "raised"
               /\ err' = "KeyError"
               /\ agent_chat_response' = agent_chat_response
    /\ UNCHANGED <<streamVars, nodeVars, engineVars, lists, steps, latest, out, form, cur,
                   tool_choice, sent_choice, is_done, tool_calls, idx,
                   function_message, tool_output, origin, issued, n_invoked,
                   log_before, sources_before, n_before, n_checked>>

\* get_latest_tool_calls: additional_kwargs.get("tool_calls") of the last
\* message of the log
get_latest_tool_calls(log) ==
    [ has |-> log[Len(log)].has_tool_calls, calls |-> log[Len(log)].tool_calls ]

\* the test of _should_continue and the choice of is_done; the arguments
\* are read first: the last message of the log (IndexError on an empty log),
\* then the counter of the step state (KeyError when it has none)
ShouldContinue ==
    /\ pc = "should_continue"
    /\ LET step == steps[cur] IN
       IF Len(Log(step)) = 0
       THEN /\ pc' = "raised"
            /\ err' = "IndexError"
            /\ UNCHANGED <<n_checked, is_done, tool_calls, idx>>
       ELSE IF "n_function_calls" \notin step.step_state.keys
       THEN /\ pc' = "raised"
            /\ err' = "KeyError"
            /\ UNCHANGED <<n_checked, is_done, tool_calls, idx>>
       ELSE LET latest_calls == get_latest_tool_calls(Log(step))
                go == _should_continue(latest_calls.has, latest_calls.calls,
                                       Counter(step), max_function_calls)
            IN  /\ n_checked' = Counter(step)
                /\ is_done' = ~go
                /\ tool_calls' = IF go THEN latest_calls.calls ELSE <<>>
                /\ idx' = IF go THEN 1 ELSE 0
                /\ pc' = IF go THEN "loop" ELSE "emit"
                /\ err' = err
    /\ UNCHANGED <<streamVars, nodeVars, engineVars, heapVars, form, cur, tool_choice,
                   sent_choice, agent_chat_response, function_message,
                   tool_output, origin, issued, replies, n_invoked, trace,
                   log_before, sources_before, n_before>>

\* the validation of the loop body without the test of tool_call.type
tool_call_error_no_type_test(tool_call) ==
    IF ~tool_call.wf THEN "ValueError: Invalid tool_call object"
    ELSE ""

\* the validation at the head of the loop body: the exception it raises
\* ("" when the directive passes)
tool_call_error(tool_call) ==
    IF ~tool_call.wf THEN "ValueError: Invalid tool_call object"
    ELSE IF tool_call.type # "function" THEN "ValueError: Invalid tool type"
    ELSE ""

\* the for loop ending as soon as the counter has reached the maximum
loop_exhausted_at_max(calls, i, n_function_calls, max_calls) ==
    i > Len(calls) \/ n_function_calls >= max_calls

\* for tool_call in self.get_latest_tool_calls(step): the loop is over when
\* the directives are used up, whatever the counter
loop_exhausted(calls, i, n_function_calls, max_calls) == i > Len(calls)

\* one turn of the for loop up to the call of _call_function /
\* _acall_function: the validation of the directive
LoopStep ==
    /\ pc = "loop"
    /\ IF loop_exhausted(tool_calls, idx, Counter(steps[cur]),
                         max_function_calls)
       THEN /\ pc' = "emit"
            /\ err' = err
       ELSE IF tool_call_error(tool_calls[idx]) # ""
       THEN /\ pc' = "raised"
            /\ err' = tool_call_error(tool_calls[idx])
       ELSE /\ pc' = "call_function"
            /\ err' = err
    /\ UNCHANGED <<streamVars, nodeVars, engineVars, heapVars, form, cur, tool_choice, sent_choice,
                   agent_chat_response, is_done, tool_calls, idx,
                   function_message, tool_output, histVars>>

\* the awaited output with the text of an un-awaited call as content
acall_function_output_unawaited(name, arguments) ==
    [ ToolResult(name, arguments) EXCEPT !.content = <<"coroutine">> ]

\* output = await async_tool.acall(**argument_dict) of a tool that returns
acall_function_output(name, arguments) == ToolResult(name, arguments)

\* whether the exception of a failing tool leaves call_function (guarded by
\* call_tool_with_error_handling) or acall_function (a bare await)
ToolErrorPropagates(f, outcome) == f = "async" /\ outcome = "raise"

\* _call_function / _acall_function up to the return of call_function /
\* acall_function: open the callback event, look the tool up, parse the
\* arguments and execute the tool
CallFunction(outcome) ==
    /\ pc = "call_function"
    /\ LET tool_call == tool_calls[idx]
           tools     == get_tools(TaskInput)
           output    == IF form = "sync"
                        THEN call_tool_with_error_handling(
                                 tool_call.name, tool_call.arguments, outcome)
                        ELSE acall_function_output(
                                 tool_call.name, tool_call.arguments)
       IN
       IF ~get_function_by_name(tools, tool_call.name)
       THEN /\ pc' = "raised"
            /\ err' = "ValueError: Tool not found"
            /\ UNCHANGED <<function_message, tool_output, n_invoked, trace>>
       ELSE IF ~json_loads(tool_call.arguments)
       THEN /\ pc' = "raised"
            /\ err' = "JSONDecodeError"
            /\ UNCHANGED <<function_message, tool_output, n_invoked, trace>>
       ELSE /\ n_invoked' = n_invoked + 1
            /\ trace' = Append(trace, <<"invoke", tool_call.id>>)
            /\ IF ToolErrorPropagates(form, outcome)
               THEN /\ pc' = "raised"
                    /\ err' = ToolException
                    /\ UNCHANGED <<function_message, tool_output>>
               ELSE /\ pc' = "record"
                    /\ err' = err
                    /\ tool_output' = output
                    /\ function_message' =
                           ToolMessage(output, tool_call.name, tool_call.id)
    /\ UNCHANGED <<streamVars, nodeVars, engineVars, heapVars, form, cur, tool_choice, sent_choice,
                   agent_chat_response, is_done, tool_calls, idx,
                   origin, issued, replies, log_before, sources_before, n_before, n_checked>>

\* the tool message put in front of the log instead of at its end
FunctionMessagePut_front(log, message) == <<message>> \o log

\* memory.put(function_message) of _call_function / _acall_function
FunctionMessagePut(log, message) == Append(log, message)

\* the counter set to one instead of incremented
n_function_calls_incremented_reset(n_function_calls) == 1

\* step.step_state["n_function_calls"] += 1
n_function_calls_incremented(n_function_calls) == n_function_calls + 1

\* sources.append(tool_output) left out
sources_append_skipped(sources, output) == sources

\* sources.append(tool_output) of _call_function / _acall_function
sources_append(sources, output) == Append(sources, output)

\* the rest of _call_function / _acall_function and of the loop body:
\* sources.append, memory.put, the reset of tool_choice, the counter
Record ==
    /\ pc = "record"
    /\ LET step == steps[cur] IN
       /\ lists' = [lists EXCEPT
                      ![step.step_state.sources] =
                          sources_append(@, tool_output)]
       /\ memory' = [memory EXCEPT
                       ![step.memory] = FunctionMessagePut(@, function_message)]
       /\ trace' = Append(trace, <<"put", function_message.tool_call_id>>)
       /\ tool_choice' = IF tool_choice \notin {"auto", "none"}
                         THEN "auto" ELSE tool_choice
       /\ steps' = [steps EXCEPT
                      ![cur].step_state.n_function_calls =
                          n_function_calls_incremented(@)]
    /\ idx' = idx + 1
    /\ function_message' = NoMessage
    /\ tool_output' = NoOutput
    /\ pc' = "loop"
    /\ UNCHANGED <<streamVars, nodeVars, engineVars, latest, out, form, cur, sent_choice,
                   agent_chat_response, is_done, tool_calls, err,
                   origin, issued, replies, n_invoked, log_before, sources_before, n_before,
                   n_checked>>

\* the follow-up step built on the log of another task
NextStep_other_memory(step, response, id_) ==
    TaskStep(step.task_id, id_, response, 3 - step.memory, DefaultStepState)

\* the follow-up TaskStep of a step that is not done
NextStep(step, response, id_) ==
    TaskStep(step.task_id, id_, response, step.memory, DefaultStepState)

\* the end of _run_step / _arun_step: new_steps and the TaskStepOutput
Emit ==
    /\ pc = "emit"
    /\ LET step == steps[cur]
           new  == NextStep(step, agent_chat_response, uuid4(issued))
       IN  IF is_done
           THEN /\ out' = TaskStepOutput(agent_chat_response, cur, TRUE, <<>>)
                /\ UNCHANGED <<steps, issued, latest>>
           ELSE /\ steps' = Append(steps, new)
                /\ issued' = Append(issued, new.step_id)
                /\ latest' = Len(steps) + 1
                /\ out' = TaskStepOutput(agent_chat_response, cur, FALSE,
                                         <<Len(steps) + 1>>)
    /\ pc' = "idle"
    /\ UNCHANGED <<streamVars, nodeVars, engineVars, memory, lists, form, cur, tool_choice,
                   sent_choice, agent_chat_response, is_done, tool_calls, idx,
                   function_message, tool_output, err,
                   origin, replies, n_invoked, trace, log_before, sources_before, n_before,
                   n_checked>>

\* stream_step: not implemented
stream_step ==
    /\ pc = "idle"
    /\ latest # 0
    /\ ~(out.present /\ out.is_last)
    /\ form' = "sync"
    /\ cur' = latest
    /\ pc' = "raised"
    /\ err' = "NotImplementedError"
    /\ UNCHANGED <<streamVars, nodeVars, engineVars, heapVars, tool_choice, sent_choice,
                   agent_chat_response, is_done, tool_calls, idx,
                   function_message, tool_output, histVars>>

\* astream_step: not implemented
astream_step ==
    /\ pc = "idle"
    /\ latest # 0
    /\ ~(out.present /\ out.is_last)
    /\ form' = "async"
    /\ cur' = latest
    /\ pc' = "raised"
    /\ err' = "NotImplementedError"
    /\ UNCHANGED <<streamVars, nodeVars, engineVars, heapVars, tool_choice, sent_choice,
                   agent_chat_response, is_done, tool_calls, idx,
                   function_message, tool_output, histVars>>

Next ==
    \/ initialize_step
    \/ \E n \in 0..MaxCounter : CallerStep(n)
    \/ \E f \in {"sync", "async"}, choice \in ToolChoices : RunStep(f, choice)
    \/ \E reply \in Replies : Chat(reply)
    \/ ShouldContinue
    \/ LoopStep
    \/ \E outcome \in {"ok", "raise"} : CallFunction(outcome)
    \/ Record
    \/ Emit
    \/ stream_step
    \/ astream_step

Spec == Init /\ [][Next]_vars

(* ------------------------- the streamed response ----------------------- *)
\* _run_step / _arun_step called with mode = ChatResponseMode.STREAM
RunStepStream(f, choice) == RunStepTo(f, choice, "stream_chat")

\* the head of _get_stream_ai_response / _get_async_stream_ai_response: the
\* model stream is opened, the StreamingAgentChatResponse is built and the
\* thread is started / the task is created; reply is the message the deltas
\* of the stream add up to, n the number of deltas
StreamOpen(reply, n) ==
    /\ pc = "stream_chat"
    /\ worker' = IF form = "sync" THEN "thread" ELSE "task"
    /\ stream_memory' = steps[cur].memory
    /\ stream_reply' = reply
    /\ chunks_left' = n
    /\ is_function' = "None"
    /\ ready' = FALSE
    /\ no_function' = FALSE
    /\ replies' = Append(replies, reply)
    /\ pc' = "stream_wait"
    /\ UNCHANGED <<nodeVars, engineVars, heapVars, form, cur, tool_choice, sent_choice,
                   agent_chat_response, is_done, tool_calls, idx,
                   function_message, tool_output, err, origin, issued,
                   n_invoked, trace, log_before, n_before, sources_before,
                   n_checked>>

\* the read of self.sources fails: the engine has no such attribute
StreamSourcesMissing ==
    /\ pc = "stream_chat"
    /\ pc' = "raised"
    /\ err' = "AttributeError"
    /\ UNCHANGED <<streamVars, nodeVars, engineVars, heapVars, form, cur, tool_choice,
                   sent_choice, agent_chat_response, is_done, tool_calls, idx,
                   function_message, tool_output, histVars>>

\* the blocking relay never joining the thread
RelayJoins_never(is_fn) == FALSE

\* the blocking relay joining the thread whatever the classification
RelayJoins_always(is_fn) == TRUE

\* if chat_stream_response._is_function: thread.join()
RelayJoins(is_fn) == is_fn = "True"

\* _get_stream_ai_response from the wait on
\* _is_function_not_none_thread_event to the join or the return
RelayWait ==
    /\ pc = "stream_wait"
    /\ form = "sync"
    /\ ready
    /\ IF RelayJoins(is_function)
       THEN /\ pc' = "stream_join"
            /\ UNCHANGED agent_chat_response
       ELSE /\ pc' = "should_continue"
            /\ agent_chat_response' = StreamingAgentChatResponse(EngineSources)
    /\ UNCHANGED <<streamVars, nodeVars, engineVars, heapVars, form, cur, tool_choice,
                   sent_choice, is_done, tool_calls, idx, function_message,
                   tool_output, err, histVars>>

\* thread.join() and the return of _get_stream_ai_response
RelayJoin ==
    /\ pc = "stream_join"
    /\ worker = "done"
    /\ pc' = "should_continue"
    /\ agent_chat_response' = StreamingAgentChatResponse(EngineSources)
    /\ UNCHANGED <<streamVars, nodeVars, engineVars, heapVars, form, cur, tool_choice,
                   sent_choice, is_done, tool_calls, idx, function_message,
                   tool_output, err, histVars>>

\* the non-blocking relay not waiting for the event
AsyncRelayReady_always(event) == TRUE

\* await chat_stream_response._is_function_false_event.wait()
AsyncRelayReady(event) == event

\* _get_async_stream_ai_response from the wait on _is_function_false_event
\* to the return
ARelayWait ==
    /\ pc = "stream_wait"
    /\ form = "async"
    /\ AsyncRelayReady(no_function)
    /\ pc' = "should_continue"
    /\ agent_chat_response' = StreamingAgentChatResponse(EngineSources)
    /\ UNCHANGED <<streamVars, nodeVars, engineVars, heapVars, form, cur, tool_choice,
                   sent_choice, is_done, tool_calls, idx, function_message,
                   tool_output, err, histVars>>

\* whether the background unit of work can take a step: the thread at any
\* time, the task only while the calling coroutine is suspended or returned
WorkerScheduled ==
    \/ worker = "thread"
    \/ /\ worker = "task"
       /\ pc \in {"stream_wait", "call_function", "idle", "raised"}

\* is_function of a chat delta: the first structural signal of the stream
\* classifies it
Classify(message) == IF message.has_tool_calls THEN "True" ELSE "False"

\* write_response_to_history / awrite_response_to_history: one chat delta is
\* consumed, the classification is made and signalled
WorkerChunk ==
    /\ WorkerScheduled
    /\ chunks_left > 0
    /\ chunks_left' = chunks_left - 1
    /\ is_function' = Classify(stream_reply)
    /\ ready' = TRUE
    /\ no_function' = (no_function \/
                         (worker = "task" /\ Classify(stream_reply) = "False"))
    /\ UNCHANGED <<worker, stream_memory, stream_reply, nodeVars, engineVars, heapVars,
                   frameVars, histVars>>

\* write_response_to_history / awrite_response_to_history: the stream is
\* exhausted and the accumulated message is written into the log; a stream
\* that yielded no delta has accumulated no message
WorkerFinish ==
    /\ WorkerScheduled
    /\ chunks_left = 0
    /\ IF is_function # "None"
       THEN /\ memory' = [memory EXCEPT
                            ![stream_memory] = ProcessMessagePut(@, stream_reply)]
            /\ trace' = Append(trace, <<"reply", 0>>)
       ELSE UNCHANGED <<memory, trace>>
    /\ worker' = "done"
    /\ UNCHANGED <<stream_memory, stream_reply, chunks_left, is_function,
                   ready, no_function, nodeVars, engineVars, lists, steps, latest, out,
                   frameVars, origin, issued, replies, n_invoked, log_before,
                   n_before, sources_before, n_checked>>

\* write_response_to_history / awrite_response_to_history: the model stream
\* raises before it yields its first delta and the worker ends with the
\* exception
WorkerFails ==
    /\ WorkerScheduled
    /\ chunks_left > 0
    /\ is_function = "None"
    /\ worker' = "failed"
    /\ UNCHANGED <<stream_memory, stream_reply, chunks_left, is_function,
                   ready, no_function, nodeVars, engineVars, heapVars, frameVars,
                   histVars>>

StreamNext ==
    \/ initialize_step
    \/ \E n \in 0..MaxCounter : CallerStep(n)
    \/ \E f \in {"sync", "async"}, choice \in ToolChoices :
          RunStepStream(f, choice)
    \/ \E reply \in Replies, n \in 1..MaxChunks : StreamOpen(reply, n)
    \/ StreamOpen(NoMessage, 0)
    \/ StreamSourcesMissing
    \/ RelayWait
    \/ RelayJoin
    \/ ARelayWait
    \/ WorkerChunk
    \/ WorkerFinish
    \/ WorkerFails
    \/ ShouldContinue
    \/ LoopStep
    \/ \E outcome \in {"ok", "raise"} : CallFunction(outcome)
    \/ Record
    \/ Emit

\* the engine called in STREAM mode
StreamSpec == Init /\ [][StreamNext]_vars

(* ----------------------------- construction ---------------------------- *)
\* before any construction: no engine
NotConstructed ==
    /\ engine = "none"
    /\ ctor_args = CtorArgs("none", <<>>, "None")
    /\ _get_tools = NoGetTools
    /\ asked = NoResponse
    /\ resolved = <<>>
    /\ max_function_calls = 0

\* OpenAIAgentStepEngine(tools=..., tool_retriever=..., max_function_calls=...)
Construct(tools_, tool_retriever_, max_calls) ==
    /\ engine = "none"
    /\ ctor_args' = CtorArgs("__init__", tools_, tool_retriever_)
    /\ LET made == __init__(tools_, tool_retriever_) IN
       /\ engine' = IF made.error = "" THEN "built" ELSE made.error
       /\ _get_tools' = made._get_tools
       /\ max_function_calls' = IF made.error = "" THEN max_calls
                                ELSE max_function_calls
    /\ UNCHANGED <<nodeVars, asked, resolved, task_id, heapVars, frameVars, histVars,
                   streamVars>>

\* OpenAIAgentStepEngine.from_tools(...): tools may be left out (has_tools
\* false), then tools = tools or [] makes it the empty list
from_tools(has_tools, tools_, tool_retriever_, llm, system_prompt, prefix_messages, max_calls) ==
    /\ engine = "none"
    /\ LET tools_or == IF has_tools THEN tools_ ELSE <<>>
           early    == from_tools_error(llm, system_prompt, prefix_messages)
           made     == __init__(tools_or, tool_retriever_)
           failure  == IF early # "" THEN early ELSE made.error
       IN  /\ ctor_args' = CtorArgs("from_tools", tools_or, tool_retriever_)
           /\ engine' = IF failure = "" THEN "built" ELSE failure
           /\ _get_tools' = IF failure = "" THEN made._get_tools ELSE NoGetTools
           /\ max_function_calls' = IF failure = "" THEN max_calls
                                    ELSE max_function_calls
    /\ UNCHANGED <<nodeVars, asked, resolved, task_id, heapVars, frameVars, histVars,
                   streamVars>>

\* engine.get_tools(input) of a constructed engine
GetTools(input_) ==
    /\ engine = "built"
    /\ asked' = input_
    /\ resolved' = get_tools(input_)
    /\ UNCHANGED <<nodeVars, engine, ctor_args, _get_tools, max_function_calls,
                   task_id,
                   heapVars, frameVars, histVars, streamVars>>

CtorInit == NotConstructed /\ NoCall /\ NoNode

CtorNext ==
    \/ \E tools_ \in ToolLists, r \in Retrievers \cup {"None"},
          m \in 0..MaxCallsBound : Construct(tools_, r, m)
    \/ \E has_tools \in BOOLEAN, tools_ \in ToolLists,
          r \in Retrievers \cup {"None"}, llm \in Llms,
          system_prompt \in BOOLEAN, prefix_messages \in BOOLEAN,
          m \in 0..MaxCallsBound :
          from_tools(has_tools, tools_, r, llm, system_prompt,
                     prefix_messages, m)
    \/ \E input_ \in Inputs : GetTools(input_)

\* the construction of the engine and the resolution of its tools
CtorSpec == CtorInit /\ [][CtorNext]_vars

(* ------------------ initialize_step called repeatedly ------------------ *)
\* the replies of at most one directive
ShortReplies == { reply \in Replies : Len(reply.tool_calls) <= 1 }

InitStepNext ==
    \/ \E t \in TaskIds : AnyInitializeStep(t)
    \/ \E f \in {"sync", "async"} : RunStep(f, "auto")
    \/ \E reply \in ShortReplies : Chat(reply)
    \/ ShouldContinue
    \/ LoopStep
    \/ CallFunction("ok")
    \/ Record
    \/ Emit

\* callers making steps with initialize_step and running the latest one
InitStepSpec == Init /\ [][InitStepNext]_vars

(* -------------------------------- nodes -------------------------------- *)
\* a node with any relationships map, no property read yet
AnyNode ==
    /\ relationships \in RelationshipMaps
    /\ node_called = "none"
    /\ node_result = NodeNone

\* node.parent_node
ParentNode ==
    /\ node_called' = "parent_node"
    /\ node_result' = parent_node(relationships)
    /\ UNCHANGED <<relationships, engineVars, heapVars, frameVars, histVars,
                   streamVars>>

\* node.child_nodes
ChildNodes ==
    /\ node_called' = "child_nodes"
    /\ node_result' = child_nodes(relationships)
    /\ UNCHANGED <<relationships, engineVars, heapVars, frameVars, histVars,
                   streamVars>>

NodeInit == Constructed /\ NoCall /\ AnyNode

NodeNext == ParentNode \/ ChildNodes

\* the relationship properties of a node
NodeSpec == NodeInit /\ [][NodeNext]_vars

(* ------------------- a failing instrumentation sink -------------------- *)
\* callback_manager.event(...) raises while the with statement of
\* _call_function / _acall_function opens the event scope (the payload, with
\* its tool lookup, is evaluated first)
SinkOpenFails ==
    /\ pc = "call_function"
    /\ get_function_by_name(get_tools(TaskInput), tool_calls[idx].name)
    /\ pc' = "raised"
    /\ err' = "CallbackError"
    /\ UNCHANGED <<streamVars, nodeVars, engineVars, heapVars, form, cur, tool_choice, sent_choice,
                   agent_chat_response, is_done, tool_calls, idx,
                   function_message, tool_output, histVars>>

\* event.on_end(...) raises after call_function / acall_function returned
SinkEndFails ==
    /\ pc = "record"
    /\ pc' = "raised"
    /\ err' = "CallbackError"
    /\ UNCHANGED <<streamVars, nodeVars, engineVars, heapVars, form, cur, tool_choice, sent_choice,
                   agent_chat_response, is_done, tool_calls, idx,
                   function_message, tool_output, histVars>>

SinkNext == Next \/ SinkOpenFails \/ SinkEndFails

\* the engine with an instrumentation sink that may fail
SinkSpec == Init /\ [][SinkNext]_vars


(* ------------------------- claim vocabulary ---------------------------- *)
LastReply == replies[Len(replies)]
CarriesDirective(reply) == reply.has_tool_calls /\ Len(reply.tool_calls) >= 1
Driven == origin = "initialize_step"
\* the last call returned a TaskStepOutput and no later call has started
Returned == pc = "idle" /\ out.present
\* the running or last call has received its model reply
Replied ==
    \/ pc \in {"should_continue", "loop", "call_function", "record", "emit"}
    \/ pc = "raised" /\ err # "NotImplementedError"
    \/ Returned
Invocations(tr) == { i \in 1..Len(tr) : tr[i][1] = "invoke" }
IsPrefix(a, b) == Len(a) <= Len(b) /\ SubSeq(b, 1, Len(a)) = a

\* C1: under a driver that calls initialize_step once and then runs the
\* latest step, the tools executed within the task never number more than
\* max_function_calls.
C1_InvocationsWithinMax == Driven => n_invoked <= max_function_calls

\* C2: a step continues iff the reply just received carries at least one
\* directive and the step's invocation counter is not greater than
\* max_function_calls; in every other case the step is marked terminal.
C2_ContinuationPredicate ==
    LET continue == CarriesDirective(LastReply)
                    /\ ~(n_before > max_function_calls) IN
    /\ pc \in {"loop", "call_function", "record", "emit"}
          => (is_done <=> ~continue)
    /\ Returned => (out.is_last <=> ~continue)

\* C2 witness: max = 1, counter = 1, the reply carries a directive and the
\* step continued.
C2_Witness ==
    /\ Returned /\ ~out.is_last
    /\ max_function_calls = 1 /\ n_before = 1
    /\ CarriesDirective(LastReply)

\* C3: under the driver and a model that returns a (usable) directive on
\* every reply, the task reaches a terminal step: whenever the driver's loop
\* has stopped, it stopped on an output with is_last true and no next steps.
C3_DriverReachesTerminal ==
    ( /\ Driven
      /\ pc = "raised" \/ (Returned /\ out.is_last)
      /\ err # ToolException
      /\ \A i \in 1..Len(replies) :
            /\ CarriesDirective(replies[i])
            /\ \A j \in 1..Len(replies[i].tool_calls) :
                  replies[i].tool_calls[j] = Directive("add", j) )
    => (Returned /\ out.is_last /\ out.next_steps = <<>>)

\* C4: the follow-up step of a non-terminal step carries a step state whose
\* invocation counter and sources are at least those of the step it follows.
C4_CounterCarriedOver ==
    (Returned /\ ~out.is_last) =>
        LET prev == steps[out.task_step]
            nxt  == steps[out.next_steps[1]]
        IN  /\ HasState(nxt)
            /\ Counter(nxt) >= Counter(prev)
            /\ Len(lists[nxt.step_state.sources])
                 >= Len(lists[prev.step_state.sources])

\* C5: after n replies (1 <= n <= max_function_calls) with exactly one
\* resolvable function directive and one reply without directive, the
\* driver's loop over run_step has completed without error after n + 1
\* steps, the last step is terminal with the last reply's content as
\* response, n tools were executed and the log ends with [reply, tool
\* message] for each round followed by the final reply.
C5_ToolCallRun ==
    \A n \in 1..max_function_calls :
      ( /\ Driven
        /\ form = "sync"
        /\ pc \in {"idle", "raised"}
        /\ Len(replies) = n + 1
        /\ \A i \in 1..n : /\ replies[i].has_tool_calls
                           /\ replies[i].tool_calls = <<Directive("add", 1)>>
        /\ ~CarriesDirective(replies[n + 1]) )
      => LET log == memory[TaskMemory(task_id)]
             base == Len(log) - (2 * n + 1)
         IN  /\ Returned
             /\ out.is_last
             /\ out.output.response = replies[n + 1].content
             /\ n_invoked = n
             /\ Len(steps) = n + 1
             /\ base >= 0
             /\ \A i \in 1..n :
                   /\ log[base + 2 * i - 1] = replies[i]
                   /\ log[base + 2 * i].role = "tool"
                   /\ log[base + 2 * i].tool_call_id = 1
             /\ log[Len(log)] = replies[n + 1]


\* C6: whatever the step state and the counter, when the model reply carries
\* no directive (tool_calls absent or empty) the TaskStepOutput returned is
\* terminal with no next steps, no tool is invoked and the counter is
\* unchanged.
C6_NoDirectiveIsTerminal ==
    (Replied /\ ~CarriesDirective(LastReply)) =>
        /\ Invocations(trace) = {}
        /\ Counter(steps[cur]) = n_before
        /\ pc \notin {"loop", "call_function", "record"}
        /\ Returned => (out.is_last /\ out.next_steps = <<>>
                        /\ out.task_step = cur)

\* C6 witness: a step whose counter is already positive returned on a reply
\* without tool_calls.
C6_Witness ==
    /\ Returned /\ out.is_last
    /\ ~LastReply.has_tool_calls
    /\ n_before >= 1

\* C7: a returned TaskStepOutput has no next steps iff it is terminal; when
\* it is not terminal it has exactly one new TaskStep with the task
\* identifier and the log object of the step that ran, the response just
\* produced as input, and a step identifier no other step has.
C7_NextStepsShape ==
    Returned =>
        /\ (out.next_steps = <<>>) <=> out.is_last
        /\ ~out.is_last =>
             /\ Len(out.next_steps) = 1
             /\ LET ran == steps[out.task_step]
                    ref == out.next_steps[1]
                    nxt == steps[ref]
                IN  /\ ref # out.task_step
                    /\ nxt.task_id = ran.task_id
                    /\ nxt.task_id = task_id
                    /\ nxt.memory = ran.memory
                    /\ nxt.input = out.output
                    /\ nxt.input.response = LastReply.content
                    /\ \A i \in 1..Len(steps) :
                          i # ref => steps[i].step_id # nxt.step_id

\* C7 witness: a call returned a non-terminal output.
C7_Witness == Returned /\ ~out.is_last /\ Len(out.next_steps) = 1

\* C8: the conversation log is append-only under every step of the engine,
\* in calls that return and in calls that raise: each log before a step is a
\* prefix of the log after it.
C8_LogAppendOnly ==
    [][\A t \in TaskIds : IsPrefix(memory[t], memory'[t])]_vars

\* C8 witness: a call that raised after it had put the reply and a tool
\* message into a log that was not empty.
C8_Witness ==
    /\ pc = "raised"
    /\ Len(log_before) >= 1
    /\ Len(Log(steps[cur])) >= Len(log_before) + 2

\* C9: after a continuing step whose k directives were all processed, the
\* log is the log before, then the reply, then the tool messages of d1..dk
\* in the order listed; the reply was put before the first tool ran and each
\* tool message was put after its own tool ran and before the next started.
C9_LogOrder ==
    (Returned /\ ~out.is_last) =>
        LET ds   == LastReply.tool_calls
            k    == Len(ds)
            log  == Log(steps[out.task_step])
            base == Len(log_before)
        IN  /\ Len(log) = base + 1 + k
            /\ SubSeq(log, 1, base) = log_before
            /\ log[base + 1] = LastReply
            /\ \A i \in 1..k :
                  /\ log[base + 1 + i].role = "tool"
                  /\ log[base + 1 + i].tool_call_id = ds[i].id
                  /\ log[base + 1 + i].name = ds[i].name
            /\ trace = [j \in 1..(2 * k + 1) |->
                          IF j = 1 THEN <<"reply", 0>>
                          ELSE IF j % 2 = 0 THEN <<"invoke", ds[j \div 2].id>>
                          ELSE <<"put", ds[(j - 1) \div 2].id>>]

\* C9 witness: a continuing step with two directives returned.
C9_Witness ==
    /\ Returned /\ ~out.is_last
    /\ Len(LastReply.tool_calls) = 2
    /\ Len(log_before) >= 1

\* C10: in both execution forms the error of a tool that raises is absorbed:
\* the call does not end with the tool's exception; the ToolOutput holds the
\* error text as content and the error as raw output, and the tool message
\* holds that content, the tool's name and the directive's id.
C10_ToolErrorAbsorbed ==
    /\ ~(pc = "raised" /\ err = ToolException)
    /\ (pc = "record" /\ tool_output.raw_output.is_error) =>
          /\ \E i \in 1..Len(tool_output.content) :
                tool_output.content[i] = ToolException
          /\ tool_output.raw_output.value = ToolException
          /\ function_message.content = tool_output.content
          /\ function_message.name = tool_calls[idx].name
          /\ function_message.tool_call_id = tool_calls[idx].id


(* ----------------------- fatal directive errors ------------------------ *)
\* the running or last call was given a step that holds its state and whose
\* counter lets the loop over the directives start
Dispatches == HasState(steps[cur]) /\ n_before <= max_function_calls

\* directive j of the reply is of one of the given unusable kinds
UnusableAt(reply, j, kinds) ==
    /\ reply.has_tool_calls
    /\ j \in 1..Len(reply.tool_calls)
    /\ \E k \in kinds : reply.tool_calls[j] = Directive(k, j)

\* directive j is fatal: the call returns no TaskStepOutput, the loop never
\* gets past directive j, no tool runs for it, no message or source is
\* recorded for it, the counter is not incremented for it, and the call that
\* fails at directive j fails with one of the given errors
FatalAt(j, errors) ==
    LET step == steps[cur] IN
    /\ ~Returned
    /\ pc # "emit"
    /\ pc \in {"loop", "call_function"} => idx <= j
    /\ pc = "record" => idx < j
    /\ \A i \in 1..Len(trace) : trace[i][2] # j
    /\ Counter(step) < n_before + j
    /\ Len(Log(step)) < Len(log_before) + 1 + j
    /\ Len(lists[step.step_state.sources]) < Len(sources_before) + j
    /\ (pc = "raised" /\ idx = j) => err \in errors

C14_PinnedChoiceOnlyOnce ==
    [][ ( /\ pc = "idle" /\ pc' = "chat"
          /\ out.present /\ ~out.is_last
          /\ sent_choice.type = "function"
          /\ Invocations(trace) # {} )
        => sent_choice'.type = "auto" ]_vars

\* C15: run_step and arun_step decide alike: a call of either form that
\* returns, with every tool of the call returning normally (the only runs
\* both forms complete), yields the terminal flag, the number of next steps,
\* the counter increment and the appended messages that the reply, the
\* counter and the maximum determine, whatever the form.
C15_FormsAgree ==
    LET step    == steps[out.task_step]
        added   == SubSeq(lists[step.step_state.sources],
                          Len(sources_before) + 1,
                          Len(lists[step.step_state.sources]))
    IN
    ( Returned /\ \A i \in 1..Len(added) : ~added[i].raw_output.is_error )
    => LET r  == LastReply
           go == CarriesDirective(r) /\ n_before <= max_function_calls
           k  == IF go THEN Len(r.tool_calls) ELSE 0
       IN  /\ out.is_last = ~go
           /\ Len(out.next_steps) = (IF go THEN 1 ELSE 0)
           /\ Counter(step) - n_before = k
           /\ Log(step) =
                log_before \o <<r>> \o
                [ i \in 1..k |->
                    [ role |-> "tool", content |-> <<"4">>,
                      has_tool_calls |-> FALSE, tool_calls |-> <<>>,
                      name |-> r.tool_calls[i].name,
                      tool_call_id |-> r.tool_calls[i].id ] ]

\* C15 witness: arun_step returned after carrying out two directives.
C15_Witness ==
    /\ Returned /\ ~out.is_last /\ form = "async"
    /\ Len(LastReply.tool_calls) = 2
    /\ Counter(steps[out.task_step]) = n_before + 2

\* the positions of _run_step / _arun_step after the relay returned
AfterRelay == {"should_continue", "loop", "call_function", "record", "emit"}
\* the positions of the for loop over the directives of the reply
InLoop == {"loop", "call_function", "record"}
\* the stream of the running step was opened
Streaming == worker # "none" /\ Len(replies) > 0 /\ LastReply = stream_reply

\* no second stream is opened while a worker is still draining one
OneWorkerAtATime ==
    pc = "stream_chat" => worker \in {"none", "done"}

\* C16: blocking relay, tool-invocation reply: whenever the blocking relay
\* has returned for a streamed reply classified as a tool invocation, the
\* worker has completed and the complete reply is the message this step
\* appended to the log; every dispatch of the step works on the directives
\* of that complete reply.
C16_JoinedBeforeDispatch ==
    (/\ Streaming
     /\ form = "sync"
     /\ pc \in AfterRelay
     /\ stream_reply.has_tool_calls)
    => /\ worker = "done"
       /\ ready
       /\ Len(Log(steps[cur])) > Len(log_before)
       /\ Log(steps[cur])[Len(log_before) + 1] = stream_reply
       /\ (pc \in InLoop => tool_calls = stream_reply.tool_calls)

\* a tool of a streamed tool-invocation reply is about to be dispatched
C16_Witness ==
    /\ Streaming
    /\ form = "sync"
    /\ pc = "call_function"
    /\ stream_reply.has_tool_calls
    /\ worker = "done"

\* C17: blocking relay, plain-text reply: the relay returns only after the
\* readiness signal fired, and it joins the worker only for a reply
\* classified as a tool invocation, never for plain text; so the relay can
\* have returned while the worker is still draining the stream (C17_Witness).
C17_PlainTextNotJoined ==
    (Streaming /\ form = "sync")
    => /\ (pc \in AfterRelay \cup {"stream_join"} => ready)
       /\ (pc = "stream_join" => stream_reply.has_tool_calls)

\* the relay has returned, the worker still has deltas to consume and the
\* reply is not in the log
C17_Witness ==
    /\ Streaming
    /\ form = "sync"
    /\ pc \in AfterRelay
    /\ ~stream_reply.has_tool_calls
    /\ worker = "thread"
    /\ chunks_left > 0
    /\ Log(steps[cur]) = log_before

\* C18: non-blocking relay: one background task is started, and the relay
\* has returned only if _is_function_false_event fired, which the task does
\* only for a reply it classified as carrying no tool call; the relay has
\* never returned for a tool-invocation reply.
C18_AsyncRelayWaits ==
    (Streaming /\ form = "async")
    => /\ worker \in {"task", "done", "failed"}
       /\ (no_function => is_function = "False" /\ ~stream_reply.has_tool_calls)
       /\ (pc \in AfterRelay => no_function)

\* the non-blocking relay has returned for a plain-text reply
C18_Witness ==
    /\ Streaming
    /\ form = "async"
    /\ pc \in AfterRelay
    /\ no_function
    /\ ~stream_reply.has_tool_calls

\* C19: stream_step, called with a valid step and task, returns a
\* TaskStepOutput; only the async-stream entry point is unimplemented.
C19_StreamStepReturns ==
    (pc = "raised" /\ err = "NotImplementedError") => form = "async"

\* C20: a failure of the instrumentation sink, while the event scope is
\* opened or while the end-of-call payload is emitted, does not reach the
\* control flow: no call ends with the sink's error.
C20_SinkFailureIsolated ==
    ~(pc = "raised" /\ err = "CallbackError")

\* C21: a non-empty fixed tool list and a tool retriever are mutually
\* exclusive: a construction given both raises and creates no engine (no
\* tools are ever resolved); an engine built with a non-empty list resolves
\* that list for every input, one built with only a retriever resolves what
\* the retriever returns for the input, one built with neither resolves the
\* empty list.
C21_ToolSourceExclusive ==
    LET both == Len(ctor_args.tools) > 0 /\ ctor_args.tool_retriever # "None"
    IN  engine # "none" =>
        /\ both => /\ engine # "built"
                   /\ _get_tools = NoGetTools
                   /\ asked = NoResponse
        /\ (both /\ ctor_args.via = "__init__") =>
               engine = "ValueError: Cannot specify both tools and tool_retriever"
        /\ (engine = "built" /\ asked # NoResponse) =>
               resolved = IF Len(ctor_args.tools) > 0 THEN ctor_args.tools
                          ELSE IF ctor_args.tool_retriever # "None"
                          THEN retrieve(ctor_args.tool_retriever, asked)
                          ELSE <<>>

\* a construction with both a tool list and a retriever was refused
C21_Witness ==
    /\ engine = "ValueError: Cannot specify both tools and tool_retriever"
    /\ Len(ctor_args.tools) > 0
    /\ ctor_args.tool_retriever # "None"

\* a call of initialize_step returns in this step of the behaviour
InitializeStepReturns == Len(lists') > Len(lists)

\* C22: the TaskStep initialize_step returns carries the task's identifier,
\* the task's input and the task's conversation log, and a step state with
\* an empty sources list and counter 0; the call leaves every log as it
\* was, and the sources list is one no earlier step refers to.
C22_InitializeStepFresh ==
    [][ InitializeStepReturns =>
          LET s == steps'[Len(steps')] IN
          /\ Len(steps') = Len(steps) + 1
          /\ s.task_id \in TaskIds
          /\ s.input = TaskInputOf(s.task_id)
          /\ s.memory = TaskMemory(s.task_id)
          /\ HasState(s)
          /\ lists'[s.step_state.sources] = <<>>
          /\ Counter(s) = 0
          /\ memory' = memory
          /\ \A i \in 1..Len(steps) :
                steps[i].step_state.sources # s.step_state.sources
      ]_vars

\* two steps made by initialize_step, one of them run: their sources lists
\* differ
C22_Witness ==
    \E i, j \in 1..Len(steps) :
        /\ i # j
        /\ HasState(steps[i])
        /\ HasState(steps[j])
        /\ lists[steps[i].step_state.sources] = <<>>
        /\ Len(lists[steps[j].step_state.sources]) > 0

\* the continuation predicate reads the log in this step of the behaviour
ReadsLatestToolCalls == pc = "should_continue" /\ pc' # "should_continue"

\* C23: whenever the continuation predicate reads the last message of the
\* log, the log is not empty and that message is the reply of the model call
\* of this same step, appended after the log the step started with.
C23_InspectsCurrentReply ==
    [][ ReadsLatestToolCalls =>
          LET log == Log(steps[cur]) IN
          /\ Len(log) > 0
          /\ Len(log) = Len(log_before) + 1
          /\ log[Len(log)] = LastReply
      ]_vars

\* C24: the continuation predicate is evaluated once per reply, on the
\* counter the step started with; a step that continued on a reply of k
\* directives leaves the loop only after the k-th directive (or by an
\* exception), and when it returns it has dispatched all k directives and
\* raised the counter by exactly k, also beyond max_function_calls.
C24_OncePerReply ==
    LET k == Len(LastReply.tool_calls) IN
    /\ (pc \in {"loop", "call_function", "record"}) =>
          /\ n_checked = n_before
          /\ tool_calls = LastReply.tool_calls
          /\ idx <= k + 1
          /\ Counter(steps[cur]) = n_before + idx - 1
    /\ (pc = "emit" /\ ~is_done) =>
          /\ idx = k + 1
          /\ Counter(steps[cur]) = n_before + k
          /\ Cardinality(Invocations(trace)) = k
    /\ (Returned /\ out.task_step = cur /\ ~out.is_last) =>
          /\ Counter(steps[cur]) = n_before + k
          /\ Cardinality(Invocations(trace)) = k

\* a step returned after dispatching every directive of its reply, the
\* counter then beyond the maximum
C24_Witness ==
    /\ Returned
    /\ out.task_step = cur
    /\ ~out.is_last
    /\ Len(LastReply.tool_calls) = MaxDirectives
    /\ Cardinality(Invocations(trace)) = MaxDirectives
    /\ Counter(steps[cur]) = n_before + MaxDirectives
    /\ Counter(steps[cur]) > max_function_calls

\* the errors of a directive that cannot be resolved, is of another kind,
\* is no directive object, or has arguments that do not parse
FatalErrors ==
    { "ValueError: Tool not found", "ValueError: Invalid tool type",
      "ValueError: Invalid tool_call object", "JSONDecodeError" }

\* C25: when a step raised a fatal directive error at directive j > 1 of its
\* reply, the log is the log the step started with, then the reply, then the
\* tool messages of directives 1..j-1; the outputs of those directives are
\* in sources; the counter has grown by exactly j-1; exactly the tools of
\* directives 1..j-1 were invoked; and no output or follow-up step exists for
\* the step.
C25_FatalErrorNotAtomic ==
    (pc = "raised" /\ err \in FatalErrors /\ idx > 1) =>
        LET step == steps[cur]
            ds   == LastReply.tool_calls
            j    == idx
            log  == Log(step)
            base == Len(log_before)
            srcs == lists[step.step_state.sources]
            sb   == Len(sources_before)
        IN  /\ j <= Len(ds)
            /\ Len(log) = base + j
            /\ SubSeq(log, 1, base) = log_before
            /\ log[base + 1] = LastReply
            /\ \A i \in 1..(j - 1) :
                  /\ log[base + 1 + i].role = "tool"
                  /\ log[base + 1 + i].tool_call_id = ds[i].id
            /\ Len(srcs) = sb + j - 1
            /\ SubSeq(srcs, 1, sb) = sources_before
            /\ \A i \in 1..(j - 1) : srcs[sb + i].tool_name = ds[i].name
            /\ Counter(step) = n_before + j - 1
            /\ { trace[i][2] : i \in Invocations(trace) }
                  = { ds[i].id : i \in 1..(j - 1) }
            /\ Cardinality(Invocations(trace)) = j - 1
            /\ latest = cur
            /\ Len(steps) = cur
            /\ (out.present => out.task_step # cur)

\* a step started with a counter above zero raised the parse error at its
\* second directive
C25_Witness ==
    /\ pc = "raised"
    /\ err = "JSONDecodeError"
    /\ idx = 2
    /\ n_before > 0
    /\ Counter(steps[cur]) = n_before + 1
    /\ Len(Log(steps[cur])) = Len(log_before) + 2

\* the tool messages the running step has appended to its log
ToolMessagesAppended ==
    LET log == Log(steps[cur]) IN
    Cardinality({ i \in (Len(log_before) + 1)..Len(log) : log[i].role = "tool" })

\* run_step / arun_step has returned or raised for the step cur
ReturnedOrRaised ==
    \/ Returned /\ out.task_step = cur
    \/ pc = "raised" /\ err # "NotImplementedError"

\* C26: whenever run_step / arun_step has returned or raised for a step
\* made by initialize_step, the length of the step's sources list, the
\* step's invocation counter and the number of tool messages the step has
\* appended to the log are equal.
C26_SourcesCounterMessages ==
    (Driven /\ cur # 0 /\ ReturnedOrRaised /\ HasState(steps[cur])) =>
        LET step == steps[cur] IN
        /\ Len(lists[step.step_state.sources]) = Counter(step)
        /\ Counter(step) = ToolMessagesAppended

\* run_step returned for the step of initialize_step after two tool calls
C26_Witness ==
    /\ Driven
    /\ cur # 0
    /\ Returned
    /\ out.task_step = cur
    /\ HasState(steps[cur])
    /\ Counter(steps[cur]) = 2
    /\ Len(lists[steps[cur].step_state.sources]) = 2
    /\ ToolMessagesAppended = 2

\* C27: the blocking relay is never left waiting for a signal that will
\* not come: whenever the calling thread waits on the readiness signal and
\* the worker has ended (stream exhausted, or failed), the signal has fired,
\* so the relay goes on to return or raise.
C27_RelayReleased ==
    (form = "sync" /\ pc = "stream_wait" /\ worker \in {"done", "failed"})
    => ready

\* C28: child_nodes returns None when the relationships map has no CHILD
\* entry; otherwise it returns the list stored under CHILD, and raises only
\* when that entry is not a list; whatever the PARENT entry is.
C28_ChildNodesReadsChild ==
    node_called = "child_nodes" =>
        /\ relationships["CHILD"].kind = "absent" => node_result = NodeNone
        /\ relationships["CHILD"].kind = "list" =>
              node_result = NodeValue(relationships["CHILD"])
        /\ relationships["CHILD"].kind = "info" => node_result.kind = "raise"

====
